---------------------------- MODULE Spec2Model ----------------------------
(***************************************************************************)
(* Light-sim 2D: the ray tracer (app/optics/simulate.py), its optical      *)
(* elements (app/optics/elements.py) and the focus analysis               *)
(* (app/optics/analysis.py) as a state machine.                           *)
(*                                                                         *)
(* Numbers.  The code computes in binary floating point.  Here a real is  *)
(* a fixed-point integer counting hundredths (Q units to 1.0); products,  *)
(* quotients and square roots round to the nearest unit.  Angles count    *)
(* twenty-fourths of a turn and cos/sin are tabulated.  The code's tiny   *)
(* thresholds (1e-12, 1e-9) lie below one unit, so "|v| < 1e-12" reads    *)
(* "v = 0" and "t <= 1e-9" reads "t <= 0".  The 1e-6 self-intersection    *)
(* offset of the trace loop is kept symbolically: an origin is a base     *)
(* point p plus 1e-6 times a vector e, and e decides the sign of a        *)
(* distance whose base value is exactly zero.                              *)
(***************************************************************************)
EXTENDS Integers, Sequences, FiniteSets, TLC

\* ------------------------------------------------------------ numbers

Q == 10 * 10

Abs(a) == IF a < 0 THEN -a ELSE a

Max(a, b) == IF a >= b THEN a ELSE b

Min(a, b) == IF a <= b THEN a ELSE b

\* n / m rounded to the nearest integer, halves away from zero (m > 0)
RoundDivPos(n, m) ==
    IF n >= 0 THEN (2 * n + m) \div (2 * m) ELSE -((2 * (-n) + m) \div (2 * m))

\* a / b rounded to the nearest integer (b # 0)
RoundDiv(a, b) == IF b < 0 THEN RoundDivPos(-a, -b) ELSE RoundDivPos(a, b)

FMul(a, b) == RoundDiv(a * b, Q)

FDiv(a, b) == RoundDiv(a * Q, b)

\* the largest r in lo..hi with r * r <= n
RECURSIVE SqrtSearch(_, _, _)
SqrtSearch(n, lo, hi) ==
    IF lo >= hi THEN lo
    ELSE IF ((lo + hi + 1) \div 2) * ((lo + hi + 1) \div 2) <= n
         THEN SqrtSearch(n, (lo + hi + 1) \div 2, hi)
         ELSE SqrtSearch(n, lo, ((lo + hi + 1) \div 2) - 1)

SqrtRound(n, r) == IF n - r * r > r THEN r + 1 ELSE r

\* the integer nearest to the square root of n >= 0
ISqrt(n) ==
    SqrtRound(n, SqrtSearch(n, 0, IF n < 65536 THEN 255
                                  ELSE IF n < 16777216 THEN 4095 ELSE 46340))

\* math.sqrt on a fixed-point value
FSqrt(v) == ISqrt(v * Q)

\* ------------------------------------------------------------ angles

Turn == 4 * 6

Half == Turn \div 2

Quarter == Turn \div 4

\* cos of k/24 turn for k in 0..6, in units
CosTable == <<100, 97, 87, 71, 50, 26, 0>>

CosAt(k) ==
    IF k <= Quarter THEN CosTable[k + 1]
    ELSE IF k <= Half THEN -CosTable[Half - k + 1]
    ELSE IF k <= Half + Quarter THEN -CosTable[k - Half + 1]
    ELSE CosTable[Turn - k + 1]

Cos(a) == CosAt(a % Turn)

Sin(a) == CosAt((a - Quarter) % Turn)

\* ------------------------------------------------------------ vec2.py

Vec2(x, y) == [x |-> x, y |-> y]

VAdd(a, b) == Vec2(a.x + b.x, a.y + b.y)

VSub(a, b) == Vec2(a.x - b.x, a.y - b.y)

VMul(a, s) == Vec2(FMul(a.x, s), FMul(a.y, s))

Dot(a, b) == FMul(a.x, b.x) + FMul(a.y, b.y)

Norm(a) == ISqrt(a.x * a.x + a.y * a.y)

\* normalized(), n the norm
NormalizedBy(a, n) ==
    IF n = 0 THEN Vec2(0, 0) ELSE Vec2(RoundDiv(a.x * Q, n), RoundDiv(a.y * Q, n))

Normalized(a) == NormalizedBy(a, Norm(a))

Perp(a) == Vec2(-a.y, a.x)

\* rotate(), c and s the cosine and sine
RotateBy(v, c, s) ==
    Vec2(FMul(c, v.x) - FMul(s, v.y), FMul(s, v.x) + FMul(c, v.y))

Rotate(v, theta) == RotateBy(v, Cos(theta), Sin(theta))

\* ------------------------------------------------------------ transform.py

Pose2(pos, theta) == [pos |-> pos, theta |-> theta]

WorldToLocal(pose, p) == Rotate(VSub(p, pose.pos), -pose.theta)

LocalToWorld(pose, p) == VAdd(Rotate(p, pose.theta), pose.pos)

DirWorldToLocal(pose, d) == Rotate(d, -pose.theta)

DirLocalToWorld(pose, d) == Rotate(d, pose.theta)

\* ------------------------------------------------------------ elements.py

None == [none |-> TRUE]

\* A ray origin: the point p + 1e-6 * e.
Origin(p, e) == [p |-> p, e |-> e]

Hit(t, p_world, n_world, element_id, element_type) ==
    [t |-> t, p_world |-> p_world, n_world |-> n_world,
     element_id |-> element_id, element_type |-> element_type]

\* t = -x0 / dx for the plane x = 0, x0 = X + 1e-6 * ex: None when dx ~ 0, and
\* when t <= 1e-9.  A base distance X of exactly zero leaves
\* t = -1e-6 * ex / dx, which passes only when ex and dx have opposite signs.
PlaneT(X, ex, dx) ==
    IF dx = 0 THEN None
    ELSE IF X # 0
         THEN (IF X * dx > 0 THEN None ELSE [t |-> FDiv(-X, dx)])
         ELSE (IF ex * dx < 0 THEN [t |-> 0] ELSE None)

\* The bound check on the local hit point p_l and the Hit built from it.
PlaneHitAt(pose, width, id, type, t, p_l) ==
    IF 2 * Abs(p_l.y) > width THEN None
    ELSE Hit(t, LocalToWorld(pose, p_l),
             Normalized(DirLocalToWorld(pose, Vec2(Q, 0))), id, type)

\* The plane x = 0 of an element met by the local ray (ro_l, rd_l).
PlaneHitT(pose, width, id, type, ro_l, rd_l, tt) ==
    IF tt = None THEN None
    ELSE PlaneHitAt(pose, width, id, type, tt.t,
                    Vec2(ro_l.x + FMul(tt.t, rd_l.x), ro_l.y + FMul(tt.t, rd_l.y)))

PlaneHit(pose, width, id, type, ro_l, e_l, rd_l) ==
    PlaneHitT(pose, width, id, type, ro_l, rd_l, PlaneT(ro_l.x, e_l.x, rd_l.x))

ThinIntersect(ln, ro, rd) ==
    PlaneHit(ln.pose, ln.aperture, ln.id, "lens",
             WorldToLocal(ln.pose, ro.p), DirWorldToLocal(ln.pose, ro.e),
             DirWorldToLocal(ln.pose, rd))

\* m2 = m - y / f on the local slope m = d_l.y / dx; a dx below 1e-12 is
\* replaced by 1e-12 * sgn, for which one unit stands.
ThinSlope(ln, p_l, d_l, sgn) ==
    Normalized(DirLocalToWorld(ln.pose,
        Normalized(Vec2(sgn * Q,
                        FDiv(d_l.y, IF d_l.x = 0 THEN sgn ELSE d_l.x)
                          - FDiv(p_l.y, ln.f)))))

ThinLocal(ln, p_l, d_l) == ThinSlope(ln, p_l, d_l, IF d_l.x >= 0 THEN 1 ELSE -1)

ThinTransmit(ln, p_world, rd_world) ==
    ThinLocal(ln, WorldToLocal(ln.pose, p_world),
              Normalized(DirWorldToLocal(ln.pose, rd_world)))

RefractK(d, nn, eta, cos1, k) ==
    IF k < 0 THEN None
    ELSE Normalized(VAdd(VMul(d, eta),
                         VMul(nn, FMul(eta, cos1) - FSqrt(Max(0, k)))))

RefractCos(d, nn, eta, cos1) ==
    RefractK(d, nn, eta, cos1, Q - FMul(FMul(eta, eta), Q - FMul(cos1, cos1)))

RefractUnit(d, nn, eta) == RefractCos(d, nn, eta, -Dot(nn, d))

RefractDir(d_in, n, n1, n2) ==
    RefractUnit(Normalized(d_in), Normalized(n), FDiv(n1, n2))

FacetIntersect(ln, ro, rd) ==
    PlaneHit(ln.pose, ln.aperture, ln.id, "lens",
             WorldToLocal(ln.pose, ro.p), DirWorldToLocal(ln.pose, ro.e),
             DirWorldToLocal(ln.pose, rd))

\* r is refract_dir's result: None is total internal reflection
FacetPick(ln, d_l, n_l, r) ==
    Normalized(DirLocalToWorld(ln.pose,
        IF r = None THEN Normalized(VSub(d_l, VMul(n_l, 2 * Dot(d_l, n_l))))
        ELSE r))

FacetRefract(ln, d_l, n_l) ==
    FacetPick(ln, d_l, n_l, RefractDir(d_l, n_l, ln.n1, ln.n2))

FacetNormal(ln, d_l, target, n_l) ==
    IF Norm(n_l) = 0 THEN Normalized(DirLocalToWorld(ln.pose, target))
    ELSE FacetRefract(ln, d_l, IF Dot(d_l, n_l) > 0 THEN VMul(n_l, -Q) ELSE n_l)

FacetTarget(ln, d_l, target) ==
    FacetNormal(ln, d_l, target,
                Normalized(VSub(VMul(d_l, ln.n1), VMul(target, ln.n2))))

FacetLocal(ln, p_l, d_l) ==
    FacetTarget(ln, d_l,
                Normalized(Vec2((IF d_l.x >= 0 THEN 1 ELSE -1) * ln.f, -p_l.y)))

FacetTransmit(ln, p_world, rd_world) ==
    FacetLocal(ln, WorldToLocal(ln.pose, p_world),
               Normalized(DirWorldToLocal(ln.pose, rd_world)))

\* The Hit at the selected root: normal from grad F
ConicHitAt(mr, t_best, p_best) ==
    Hit(t_best, LocalToWorld(mr.pose, p_best),
        Normalized(DirLocalToWorld(mr.pose,
            Normalized(Vec2(-2 * mr.R + 2 * FMul(Q + mr.kappa, p_best.x),
                            2 * p_best.y)))),
        mr.id, "mirror")

\* A faulty filter: the aperture test of line 189 left out
ConicRootOkNoAperture(mr, t, p_l, tiny) ==
    /\ t > 0 \/ (t = 0 /\ tiny)
    /\ p_l.x >= 0

\* The filters of the root loop on one root t, met at local point p_l:
\* t > 1e-9, x >= -1e-9, |y| <= aperture / 2.  tiny is TRUE for a root whose
\* base value is zero and which the origin's 1e-6 offset makes positive.
ConicRootOk(mr, t, p_l, tiny) ==
    /\ t > 0 \/ (t = 0 /\ tiny)
    /\ p_l.x >= 0
    /\ 2 * Abs(p_l.y) <= mr.aperture

ConicPointAt(ro_l, rd_l, t) ==
    Vec2(ro_l.x + FMul(t, rd_l.x), ro_l.y + FMul(t, rd_l.y))

\* A faulty root choice: the largest of the roots that pass the filters
ConicLargest(mr, ro_l, rd_l, ts, ok) ==
    IF ok = {} THEN None
    ELSE ConicHitAt(mr, ts[CHOOSE i \in ok : \A j \in ok : ts[i] >= ts[j]],
             ConicPointAt(ro_l, rd_l,
                          ts[CHOOSE i \in ok : \A j \in ok : ts[i] >= ts[j]]))

\* The smallest of the roots ts that pass the filters, None if none does
ConicBest(mr, ro_l, rd_l, ts, ok) ==
    IF ok = {} THEN None
    ELSE ConicHitAt(mr, ts[CHOOSE i \in ok : \A j \in ok : ts[i] <= ts[j]],
             ConicPointAt(ro_l, rd_l,
                          ts[CHOOSE i \in ok : \A j \in ok : ts[i] <= ts[j]]))

ConicSelect(mr, ro_l, rd_l, ts, tiny) ==
    ConicBest(mr, ro_l, rd_l, ts,
              {i \in 1..Len(ts) :
                  ConicRootOk(mr, ts[i], ConicPointAt(ro_l, rd_l, ts[i]), tiny)})

ConicRoots(mr, ro_l, rd_l, A, B, s, tiny) ==
    ConicSelect(mr, ro_l, rd_l,
                <<FDiv(-B - s, 2 * A), FDiv(-B + s, 2 * A)>>, tiny)

ConicDisc(mr, ro_l, rd_l, A, B, disc, tiny) ==
    IF disc < 0 THEN None ELSE ConicRoots(mr, ro_l, rd_l, A, B, FSqrt(disc), tiny)

\* Ce is the first-order change of C under the origin's offset: with C = 0
\* the root at zero is -1e-6 * Ce / B
ConicSolve(mr, ro_l, rd_l, A, B, C, Ce) ==
    IF A = 0
    THEN (IF B = 0 THEN None
          ELSE ConicSelect(mr, ro_l, rd_l, <<FDiv(-C, B)>>, C = 0 /\ Ce * B < 0))
    ELSE ConicDisc(mr, ro_l, rd_l, A, B, FMul(B, B) - 4 * FMul(A, C),
                   C = 0 /\ Ce * B < 0)

ConicLocal(mr, ro_l, e_l, rd_l, k1) ==
    ConicSolve(mr, ro_l, rd_l,
        FMul(rd_l.y, rd_l.y) + FMul(k1, FMul(rd_l.x, rd_l.x)),
        2 * FMul(ro_l.y, rd_l.y) - 2 * FMul(mr.R, rd_l.x)
          + 2 * FMul(k1, FMul(ro_l.x, rd_l.x)),
        FMul(ro_l.y, ro_l.y) - 2 * FMul(mr.R, ro_l.x)
          + FMul(k1, FMul(ro_l.x, ro_l.x)),
        2 * FMul(ro_l.y, e_l.y) - 2 * FMul(mr.R, e_l.x)
          + 2 * FMul(k1, FMul(ro_l.x, e_l.x)))

ConicIntersect(mr, ro, rd) ==
    ConicLocal(mr, WorldToLocal(mr.pose, ro.p), DirWorldToLocal(mr.pose, ro.e),
               Normalized(DirWorldToLocal(mr.pose, rd)), Q + mr.kappa)

ConicReflectUnit(d, n) == Normalized(VSub(d, VMul(n, 2 * Dot(d, n))))

ConicReflect(rd_world, n_world) ==
    ConicReflectUnit(Normalized(rd_world), Normalized(n_world))

SensorIntersect(sn, ro, rd) ==
    PlaneHit(sn.pose, sn.length, sn.id, "sensor",
             WorldToLocal(sn.pose, ro.p), DirWorldToLocal(sn.pose, ro.e),
             Normalized(DirWorldToLocal(sn.pose, rd)))

\* ------------------------------------------------------------ analysis.py

RayLine(p0, d) == [p0 |-> p0, d |-> d]

RECURSIVE SumSeq(_)
SumSeq(s) == IF s = <<>> THEN 0 ELSE Head(s) + SumSeq(Tail(s))

\* np.mean of a non-empty sequence
Mean(s) == RoundDiv(SumSeq(s), Len(s))

\* sqrt(mean(square(s - m)))
RmsAbout(s, m) ==
    FSqrt(RoundDiv(SumSeq([i \in 1..Len(s) |-> (s[i] - m) * (s[i] - m)]), Len(s) * Q))

\* ln.p0.y + t * ln.d.y
YAt(ln, t) == <<ln.p0.y + FMul(t, ln.d.y)>>

\* One line's intercept with x = detector_x, as a sequence of none or one:
\* none when dx ~ 0 and when t = (detector_x - p0.x) / dx <= 0
YOf(ln, detector_x) ==
    IF ln.d.x = 0 THEN <<>>
    ELSE IF (detector_x - ln.p0.x) * ln.d.x <= 0 THEN <<>>
    ELSE YAt(ln, FDiv(detector_x - ln.p0.x, ln.d.x))

RECURSIVE _ys_at_x(_, _)
_ys_at_x(lines, detector_x) ==
    IF lines = <<>> THEN <<>>
    ELSE YOf(Head(lines), detector_x) \o _ys_at_x(Tail(lines), detector_x)

PlaneStat(x, ys, y_mean) == [p |-> Vec2(x, y_mean), rms |-> RmsAbout(ys, y_mean)]

\* A faulty acceptance: any plane with an intercept is a candidate
PlaneOfNonEmpty(x, ys, min_samples) ==
    IF Len(ys) < 1 THEN None ELSE PlaneStat(x, ys, Mean(ys))

\* One candidate plane: None when it has fewer than min_samples intercepts
PlaneOf(x, ys, min_samples) ==
    IF Len(ys) < min_samples THEN None ELSE PlaneStat(x, ys, Mean(ys))

PlaneX(x_min, x_max, steps, i) == x_min + RoundDiv((x_max - x_min) * i, steps - 1)

\* "if best is None or rms < best[1]": the earlier plane stays on a tie
KeepBest(best, cand) ==
    IF cand = None THEN best
    ELSE IF best = None THEN cand
    ELSE IF cand.rms < best.rms THEN cand ELSE best

\* The loop over planes lo..hi-1 in order, split in halves: KeepBest is
\* associative, so the halves' results combine to the loop's.
RECURSIVE ScanRange(_, _, _, _, _, _, _)
ScanRange(lines, x_min, x_max, steps, min_samples, lo, hi) ==
    IF hi <= lo THEN None
    ELSE IF hi = lo + 1
         THEN PlaneOf(PlaneX(x_min, x_max, steps, lo),
                      _ys_at_x(lines, PlaneX(x_min, x_max, steps, lo)), min_samples)
         ELSE KeepBest(
                ScanRange(lines, x_min, x_max, steps, min_samples, lo, (lo + hi) \div 2),
                ScanRange(lines, x_min, x_max, steps, min_samples, (lo + hi) \div 2, hi))

best_focus_scan(lines, x_min, x_max, steps, min_samples) ==
    IF steps < 2 THEN None
    ELSE ScanRange(lines, x_min, x_max, steps, min_samples, 0, steps)

\* The projector I - u u^T of a line of unit direction u: [[a, b], [b, c]]
ProjectorOf(u) ==
    [a |-> Q - FMul(u.x, u.x), b |-> -FMul(u.x, u.y), c |-> Q - FMul(u.y, u.y)]

Projector(ln) == ProjectorOf(Normalized(ln.d))

\* The perpendicular distance from point pf to the line through p0 along u
PerpOf(w, u) == Norm(VSub(w, VMul(u, Dot(w, u))))

PerpDist(ln, pf) == PerpOf(VSub(pf, ln.p0), Normalized(ln.d))

FocusRms(lines, focus) ==
    [p |-> focus,
     rms |-> FSqrt(RoundDiv(
                SumSeq([i \in 1..Len(lines) |->
                          PerpDist(lines[i], focus) * PerpDist(lines[i], focus)]),
                Len(lines) * Q))]

\* np.linalg.det and np.linalg.solve on the 2x2 system
SolveFocus(lines, A00, A01, A11, b0, b1, det) ==
    IF det = 0 THEN None
    ELSE FocusRms(lines, Vec2(FDiv(FMul(A11, b0) - FMul(A01, b1), det),
                              FDiv(FMul(A00, b1) - FMul(A01, b0), det)))

NormalSystem(lines, A00, A01, A11, b0, b1) ==
    SolveFocus(lines, A00, A01, A11, b0, b1, FMul(A00, A11) - FMul(A01, A01))

Accumulate(lines, P) ==
    NormalSystem(lines,
        SumSeq([i \in 1..Len(lines) |-> P[i].a]),
        SumSeq([i \in 1..Len(lines) |-> P[i].b]),
        SumSeq([i \in 1..Len(lines) |-> P[i].c]),
        SumSeq([i \in 1..Len(lines) |->
                  FMul(P[i].a, lines[i].p0.x) + FMul(P[i].b, lines[i].p0.y)]),
        SumSeq([i \in 1..Len(lines) |->
                  FMul(P[i].b, lines[i].p0.x) + FMul(P[i].c, lines[i].p0.y)]))

estimate_focus(lines) ==
    IF Len(lines) < 2 THEN None
    ELSE Accumulate(lines, [i \in 1..Len(lines) |-> Projector(lines[i])])

\* The k-th smallest element of s (k from 1)
KthSmallest(s, k) ==
    CHOOSE v \in {s[i] : i \in 1..Len(s)} :
        /\ Cardinality({i \in 1..Len(s) : s[i] < v}) < k
        /\ Cardinality({i \in 1..Len(s) : s[i] <= v}) >= k

\* np.percentile(s, q): linear interpolation between the order statistics
PercentileAt(s, lo, frac) ==
    KthSmallest(s, lo + 1)
      + RoundDiv((KthSmallest(s, Min(lo + 2, Len(s))) - KthSmallest(s, lo + 1)) * frac,
                 100)

Percentile(s, q) ==
    PercentileAt(s, (q * (Len(s) - 1)) \div 100, (q * (Len(s) - 1)) % 100)

ProfileRange(detector_x, bins, n, y05, y95, pad) ==
    [detector |-> [x |-> detector_x, y_min |-> y05 - pad, y_max |-> y95 + pad,
                   bins |-> bins],
     samples |-> n]

ProfilePad(detector_x, bins, n, y05, y95) ==
    ProfileRange(detector_x, bins, n, y05, y95, Max(0, RoundDiv(y95 - y05, 10)))

\* The histogram's detector block and sample count; the bin counts, edges and
\* peak are functions of the same intercepts and are not carried.
ProfileOf(ys, detector_x, bins) ==
    IF Len(ys) < 10 THEN None
    ELSE ProfilePad(detector_x, bins, Len(ys), Percentile(ys, 5), Percentile(ys, 95))

intensity_profile_at_x(lines, detector_x, bins) ==
    ProfileOf(_ys_at_x(lines, detector_x), detector_x, bins)

\* ------------------------------------------------------------ scenes

\* Largest settings.max_bounces, largest ray_count of one source, number of
\* integer seeds, and number of values the operating system's entropy takes.
MaxBounces == 2

MaxRayCount == 3

NumSeeds == 2

NumEntropy == 2

\* schema.py, SourceModel
SourceModel(type, n) ==
    [id |-> "src", type |-> type, pos |-> Vec2(0, 0), ray_count |-> n,
     theta |-> 0, width |-> 150]

\* schema.py, FresnelLensModel
FresnelLensModel(id, type, x) ==
    [id |-> id, type |-> type, pos |-> Vec2(x, 0), theta |-> 0, f |-> 100,
     aperture |-> 200, n1 |-> 100, n2 |-> 149]

\* schema.py, ConicMirrorModel: a mirror at x = 3 facing the source
ConicMirrorModel(kappa) ==
    [id |-> "m", type |-> "conic", pos |-> Vec2(300, 0), theta |-> Half,
     R |-> 200, kappa |-> kappa, aperture |-> 200]

\* A sensor description as simulate_scene reads it (id, pos, theta, length).
SensorModel(id, x) ==
    [id |-> id, pos |-> Vec2(x, 0), theta |-> 0, length |-> 100]

\* schema.py, SettingsModel
SettingsModel(mb, jit, seed) ==
    [max_bounces |-> mb, max_distance |-> 500, angular_jitter |-> jit, seed |-> seed]

\* schema.py, SourceModel.ray_count: Field(ge=10, le=20000)
MinRayCount == 10

\* simulate.py line 126, steps=240; analysis.py line 115, min_samples = 30;
\* simulate.py line 139, bins=200
ScanSteps == 240

MinSamples == 30

ProfileBins == 200

SourceLists ==
    {<<>>}
    \cup {<<SourceModel(ty, n)>> : ty \in {"point", "collimated"}, n \in 0..MaxRayCount}
    \cup {<<SourceModel("collimated", n), SourceModel("point", 1)>> : n \in 0..1}

LensLists ==
    { <<>>,
      <<FresnelLensModel("l1", "fresnel_thin", 100)>>,
      <<FresnelLensModel("l1", "fresnel_facet", 100)>>,
      <<FresnelLensModel("l1", "fresnel_thin", 100),
        FresnelLensModel("l2", "fresnel_thin", 150)>> }

MirrorLists == {<<>>, <<ConicMirrorModel(-100)>>, <<ConicMirrorModel(0)>>}

SensorLists ==
    { <<>>,
      <<SensorModel("d1", 200)>>,
      <<SensorModel("d1", 200), SensorModel("d2", 250)>>,
      <<SensorModel("d1", 200), SensorModel("d1", 250)>> }

\* settings.seed: None, or an integer k carried as [int |-> k].  The schema
\* admits every integer, negative ones too.
IntSeed(k) == [int |-> k]

SeedChoices == {None} \cup {IntSeed(k) : k \in {-1} \cup 1..NumSeeds}

SettingsChoices ==
    {SettingsModel(mb, jit, seed) :
        mb \in 0..MaxBounces, jit \in 0..1, seed \in SeedChoices}

\* schema.py, Scene: sources, lenses, mirrors, settings and no other field.
\* Every source carries a ray_count the schema admits.
SchemaScenes ==
    {[sources |-> <<SourceModel(ty, MinRayCount)>>, lenses |-> l, mirrors |-> m,
      settings |-> st] :
        ty \in {"point", "collimated"}, l \in LensLists, m \in MirrorLists,
        st \in SettingsChoices}

\* Scene objects that also carry the sensors list simulate_scene reads: every
\* arrangement of the elements, traced without jitter ...
GeometryScenes ==
    {[sources |-> s, lenses |-> l, mirrors |-> m, sensors |-> sn,
      settings |-> SettingsModel(MaxBounces, 0, IntSeed(1))] :
        s \in SourceLists, l \in LensLists, m \in MirrorLists, sn \in SensorLists}

\* ... and every choice of the settings, on a lens, a sensor and a mirror.
SettingsScenes ==
    {[sources |-> <<SourceModel(ty, MaxRayCount)>>,
      lenses |-> <<FresnelLensModel("l1", "fresnel_thin", 100)>>,
      mirrors |-> m, sensors |-> <<SensorModel("d1", 200)>>, settings |-> st] :
        ty \in {"point", "collimated"}, m \in {<<>>, <<ConicMirrorModel(0)>>},
        st \in SettingsChoices}

\* ... and beams of about min_samples rays (analysis.py line 115), the count
\* at which best_focus_scan starts to accept a plane.
FocusScenes ==
    {[sources |-> <<SourceModel(ty, n)>>, lenses |-> l, mirrors |-> <<>>,
      sensors |-> <<>>, settings |-> SettingsModel(MaxBounces, 0, IntSeed(1))] :
        ty \in {"point", "collimated"}, n \in {MinSamples - 1, MinSamples},
        l \in {<<>>, <<FresnelLensModel("l1", "fresnel_thin", 100)>>}}

\* ... and elements placed so that one ray meets two of them at the same t:
\* two lenses, a lens and a sensor, a lens and the mirror, two mirrors, the
\* mirror and a sensor, two sensors.
TieScenes ==
    {[sources |-> <<s>>, lenses |-> l, mirrors |-> m, sensors |-> sn,
      settings |-> SettingsModel(MaxBounces, 0, IntSeed(1))] :
        s \in {SourceModel("point", 1), SourceModel("collimated", MaxRayCount)},
        l \in { <<>>,
                <<FresnelLensModel("l1", "fresnel_thin", 100),
                  FresnelLensModel("l2", "fresnel_facet", 100)>>,
                <<FresnelLensModel("l1", "fresnel_thin", 100)>>,
                <<FresnelLensModel("l3", "fresnel_thin", 300)>> },
        m \in { <<>>, <<ConicMirrorModel(0)>>,
                <<ConicMirrorModel(-100), ConicMirrorModel(0)>> },
        sn \in { <<>>, <<SensorModel("d1", 100)>>, <<SensorModel("d1", 300)>>,
                 <<SensorModel("d1", 100), SensorModel("d2", 100)>>,
                 <<SensorModel("d1", 300), SensorModel("d2", 300)>> }}

SensorScenes == GeometryScenes \cup SettingsScenes \cup FocusScenes \cup TieScenes

\* ------------------------------------------------------------ simulate.py

VARIABLES
    scene,          \* the Scene handed to simulate_scene
    pc,             \* where simulate_scene stands
    run,            \* 1 for the first call on the scene, 2 for the repeated
                    \* call, 3 for the call with another seed
    first,          \* what the first call returned (None until then)
    lenses, mirrors, sensors,
    rng,            \* the generator's state
    rays_out, outgoing_lines, sensor_hits, total_rays,
    si, ri,         \* index of the current source, and of the ray within it
    pts, o, d,      \* _trace_one's locals
    it,             \* iterations of the trace loop begun so far
    brk,            \* the trace loop was left by break
    hit_best,       \* the hit the last iteration of the trace loop selected
    hits0,          \* sensor_hits as it was when _trace_one was entered
    analysis,
    probe,          \* a mirror and a ray handed to ConicMirror.intersect alone
    probed          \* what that call returned

vars == <<scene, pc, run, first, lenses, mirrors, sensors, rng, rays_out,
          outgoing_lines, sensor_hits, total_rays, si, ri, pts, o, d, it, brk,
          hit_best, hits0, analysis, probe, probed>>

Zero == Vec2(0, 0)

max_bounces == scene.settings.max_bounces

max_dist == scene.settings.max_distance

angular_jitter == scene.settings.angular_jitter

\* lines 20-41: one lens object per scene lens, by type
MakeLens(l) ==
    IF l.type = "fresnel_facet"
    THEN [cls |-> "FresnelFacetLens", id |-> l.id, pose |-> Pose2(l.pos, l.theta),
          f |-> l.f, aperture |-> l.aperture, n1 |-> l.n1, n2 |-> l.n2]
    ELSE [cls |-> "FresnelThinLens", id |-> l.id, pose |-> Pose2(l.pos, l.theta),
          f |-> l.f, aperture |-> l.aperture]

MakeMirror(m) ==
    [id |-> m.id, pose |-> Pose2(m.pos, m.theta), R |-> m.R, kappa |-> m.kappa,
     aperture |-> m.aperture]

MakeSensor(s) == [id |-> s.id, pose |-> Pose2(s.pos, s.theta), length |-> s.length]

\* The generator: a full-period congruential step on 0..7 stands for PCG64.
RngMod == 2 * 4

RngStep(s) == (5 * s + 3) % RngMod

\* np.random.default_rng(seed): the state an integer seed fixes
SeedState(seed) == (3 * seed.int + 1) % RngMod

\* np.random.default_rng(None): fresh entropy from the operating system
Entropy == 0..(NumEntropy - 1)

\* rng.uniform(-j, j), to the nearest angle step
Uniform(s, j) == (s % (2 * j + 1)) - j

InitialLocals ==
    /\ lenses = <<>> /\ mirrors = <<>> /\ sensors = <<>>
    /\ rng = 0
    /\ rays_out = <<>> /\ outgoing_lines = <<>>
    /\ sensor_hits = <<>> /\ total_rays = 0
    /\ si = 1 /\ ri = 0
    /\ pts = <<>> /\ o = Origin(Zero, Zero) /\ d = Zero
    /\ it = 0 /\ brk = FALSE /\ hit_best = None /\ hits0 = <<>>
    /\ analysis = None

Init ==
    /\ scene \in SchemaScenes \cup SensorScenes
    /\ pc = "start"
    /\ run = 1
    /\ first = None
    /\ InitialLocals
    /\ probe = None
    /\ probed = None

\* line 58: reading scene.sensors raises AttributeError on an object without
\* that attribute.
SensorsReadable == "sensors" \in DOMAIN scene

\* line 64: default_rng raises ValueError on a negative seed.
SeedAccepted ==
    IF scene.settings.seed = None THEN TRUE ELSE scene.settings.seed.int >= 0

\* lines 20-64, when one of them raises
ConstructRaises ==
    /\ pc = "start"
    /\ ~(SensorsReadable /\ SeedAccepted)
    /\ pc' = "raised"
    /\ lenses' = [i \in 1..Len(scene.lenses) |-> MakeLens(scene.lenses[i])]
    /\ mirrors' = [i \in 1..Len(scene.mirrors) |-> MakeMirror(scene.mirrors[i])]
    /\ UNCHANGED <<scene, run, first, sensors, rng, rays_out, outgoing_lines,
                   sensor_hits, total_rays, si, ri, pts, o, d, it, brk,
                   hit_best, hits0, analysis, probe, probed>>

\* A faulty construction: default_rng() called without the seed
ConstructUnseeded ==
    /\ pc = "start"
    /\ SensorsReadable
    /\ SeedAccepted
    /\ lenses' = [i \in 1..Len(scene.lenses) |-> MakeLens(scene.lenses[i])]
    /\ mirrors' = [i \in 1..Len(scene.mirrors) |-> MakeMirror(scene.mirrors[i])]
    /\ sensors' = [i \in 1..Len(scene.sensors) |-> MakeSensor(scene.sensors[i])]
    /\ \E e \in Entropy : rng' = e
    /\ rays_out' = <<>>
    /\ outgoing_lines' = <<>>
    /\ sensor_hits' = [id \in {scene.sensors[i].id : i \in 1..Len(scene.sensors)} |-> 0]
    /\ total_rays' = 0
    /\ si' = 1 /\ ri' = 0
    /\ pc' = "emit"
    /\ UNCHANGED <<scene, run, first, pts, o, d, it, brk, hit_best, hits0,
                   analysis, probe, probed>>

\* lines 20-69
Construct ==
    /\ pc = "start"
    /\ SensorsReadable
    /\ SeedAccepted
    /\ lenses' = [i \in 1..Len(scene.lenses) |-> MakeLens(scene.lenses[i])]
    /\ mirrors' = [i \in 1..Len(scene.mirrors) |-> MakeMirror(scene.mirrors[i])]
    /\ sensors' = [i \in 1..Len(scene.sensors) |-> MakeSensor(scene.sensors[i])]
    /\ IF scene.settings.seed = None
       THEN \E e \in Entropy : rng' = e
       ELSE rng' = SeedState(scene.settings.seed)
    /\ rays_out' = <<>>
    /\ outgoing_lines' = <<>>
    /\ sensor_hits' = [id \in {scene.sensors[i].id : i \in 1..Len(scene.sensors)} |-> 0]
    /\ total_rays' = 0
    /\ si' = 1 /\ ri' = 0
    /\ pc' = "emit"
    /\ UNCHANGED <<scene, run, first, pts, o, d, it, brk, hit_best, hits0,
                   analysis, probe, probed>>

AtSource == pc = "emit" /\ si <= Len(scene.sources)

\* lines 72-73
SkipSource ==
    /\ AtSource
    /\ scene.sources[si].ray_count <= 0
    /\ si' = si + 1
    /\ UNCHANGED <<scene, pc, run, first, lenses, mirrors, sensors, rng,
                   rays_out, outgoing_lines, sensor_hits, total_rays, ri, pts,
                   o, d, it, brk, hit_best, hits0, analysis, probe, probed>>

\* lines 89-90 and 104-105: the jitter added to the angle, and the generator after
JitterDraw == IF angular_jitter > 0 THEN Uniform(RngStep(rng), angular_jitter) ELSE 0

JitterRng == IF angular_jitter > 0 THEN RngStep(rng) ELSE rng

\* _trace_one's entry, lines 172-174
EnterTrace(origin, rd) ==
    /\ pts' = <<origin>>
    /\ o' = Origin(origin, Zero)
    /\ d' = Normalized(rd)
    /\ it' = 0
    /\ brk' = FALSE
    /\ hit_best' = None
    /\ hits0' = sensor_hits
    /\ pc' = "trace"

\* lines 80-87: the origin of ray i of collimated source s
CollimatedOrigin(s, i) ==
    VAdd(s.pos,
         VMul(Normalized(Perp(Normalized(Vec2(Cos(s.theta), Sin(s.theta))))),
              -RoundDiv(s.width, 2) + RoundDiv(s.width * i, Max(1, s.ray_count - 1))))

\* lines 91 and 106
RayDir(ang) == Normalized(Vec2(Cos(ang), Sin(ang)))

\* lines 75-92: one ray of a collimated source
EmitCollimated ==
    /\ AtSource
    /\ scene.sources[si].ray_count > 0
    /\ scene.sources[si].type = "collimated"
    /\ total_rays' = IF ri = 0 THEN total_rays + scene.sources[si].ray_count
                     ELSE total_rays
    /\ EnterTrace(CollimatedOrigin(scene.sources[si], ri),
                  RayDir(scene.sources[si].theta + JitterDraw))
    /\ rng' = JitterRng
    /\ UNCHANGED <<scene, run, first, lenses, mirrors, sensors, rays_out,
                   outgoing_lines, sensor_hits, si, ri, analysis, probe,
                   probed>>

\* line 103: the angle of ray i of n of a point source
PointAngle(i, n) == RoundDiv(Turn * i, n)

\* lines 75-77 and 100-107: one ray of a point source
EmitPoint ==
    /\ AtSource
    /\ scene.sources[si].ray_count > 0
    /\ scene.sources[si].type # "collimated"
    /\ total_rays' = IF ri = 0 THEN total_rays + scene.sources[si].ray_count
                     ELSE total_rays
    /\ EnterTrace(scene.sources[si].pos,
                  RayDir(PointAngle(ri, scene.sources[si].ray_count) + JitterDraw))
    /\ rng' = JitterRng
    /\ UNCHANGED <<scene, run, first, lenses, mirrors, sensors, rays_out,
                   outgoing_lines, sensor_hits, si, ri, analysis, probe,
                   probed>>

LensIntersect(ln, ro, rd) ==
    IF ln.cls = "FresnelFacetLens" THEN FacetIntersect(ln, ro, rd)
    ELSE ThinIntersect(ln, ro, rd)

LensTransmit(ln, p_world, rd_world) ==
    IF ln.cls = "FresnelFacetLens" THEN FacetTransmit(ln, p_world, rd_world)
    ELSE ThinTransmit(ln, p_world, rd_world)

Intersect(kind, elem, ro, rd) ==
    CASE kind = "lens" -> LensIntersect(elem, ro, rd)
      [] kind = "mirror" -> ConicIntersect(elem, ro, rd)
      [] kind = "sensor" -> SensorIntersect(elem, ro, rd)

\* A faulty comparison: the first hit found is kept, whatever comes later
FirstFound(h, best) == best = None

\* A faulty comparison: a later hit at the same t replaces the earlier one
CloserOrEqual(h, best) == best = None \/ h.t <= best.h.t

\* lines 183, 190, 202: does hit h replace the best so far?
Closer(h, best) == best = None \/ h.t < best.h.t

\* The body of a candidate loop for one element whose hit is h
Better(kind, elem, h, best) ==
    IF h = None THEN best
    ELSE IF Closer(h, best) THEN [kind |-> kind, elem |-> elem, h |-> h]
    ELSE best

\* One of the three candidate loops (lines 179-184, 186-191, 194-203): the
\* best hit after the elements of one kind, starting from best.
RECURSIVE NearestIn(_, _, _, _, _)
NearestIn(kind, elems, ro, rd, best) ==
    IF elems = <<>> THEN best
    ELSE NearestIn(kind, Tail(elems), ro, rd,
                   Better(kind, Head(elems), Intersect(kind, Head(elems), ro, rd), best))

\* hit_best at line 205
HitBest(ls, ms, ss, ro, rd) ==
    NearestIn("sensor", ss, ro, rd,
        NearestIn("mirror", ms, ro, rd,
            NearestIn("lens", ls, ro, rd, None)))

\* lines 198-200, one sensor: the counters after its hit h
RecordSensorHit(hits, h) ==
    IF h.element_id \in DOMAIN hits
    THEN [hits EXCEPT ![h.element_id] = @ + 1]
    ELSE hits

\* lines 196-200, one sensor whose intersect returned h
CountOne(hits, h) == IF h = None THEN hits ELSE RecordSensorHit(hits, h)

\* A faulty tally: the loop over the sensors stops at the first one intersected
RECURSIVE CountFirst(_, _, _, _)
CountFirst(ss, ro, rd, hits) ==
    IF ss = <<>> THEN hits
    ELSE IF SensorIntersect(Head(ss), ro, rd) # None
         THEN RecordSensorHit(hits, SensorIntersect(Head(ss), ro, rd))
         ELSE CountFirst(Tail(ss), ro, rd, hits)

\* lines 194-200 over all sensors
RECURSIVE CountSensors(_, _, _, _)
CountSensors(ss, ro, rd, hits) ==
    IF ss = <<>> THEN hits
    ELSE CountSensors(Tail(ss), ro, rd,
                      CountOne(hits, SensorIntersect(Head(ss), ro, rd)))

\* lines 212-218
NewDirection(best, rd) ==
    IF best.kind = "lens" THEN LensTransmit(best.elem, best.h.p_world, rd)
    ELSE IF best.kind = "mirror" THEN ConicReflect(rd, best.h.n_world)
    ELSE rd

\* A faulty offset: along the direction the ray had before the interaction
OriginAlongOld(h, d_old, d_new) == Origin(h.p_world, d_old)

\* line 222: the next origin, h.p_world + d * 1e-6 with d the new direction
NextOrigin(h, d_old, d_new) == Origin(h.p_world, d_new)

\* A faulty loop bound: range(max_bounces + 2)
InLoopOneMore == pc = "trace" /\ ~brk /\ it < max_bounces + 2

\* line 176: the loop has an iteration left and was not left by break
InLoop == pc = "trace" /\ ~brk /\ it < max_bounces + 1

\* lines 176-207, an iteration that finds no hit
TraceEscape ==
    /\ InLoop
    /\ HitBest(lenses, mirrors, sensors, o, d) = None
    /\ sensor_hits' = CountSensors(sensors, o, d, sensor_hits)
    /\ pts' = Append(pts, VAdd(o.p, VMul(d, max_dist)))
    /\ brk' = TRUE
    /\ hit_best' = None
    /\ it' = it + 1
    /\ UNCHANGED <<scene, pc, run, first, lenses, mirrors, sensors, rng,
                   rays_out, outgoing_lines, total_rays, si, ri, o, d, hits0,
                   analysis, probe, probed>>

\* lines 209-222 for the selected hit
Advance(best, d_new) ==
    /\ pts' = Append(pts, best.h.p_world)
    /\ d' = d_new
    /\ o' = NextOrigin(best.h, d, d_new)

\* lines 176-222, an iteration that finds a hit
TraceHit ==
    /\ InLoop
    /\ HitBest(lenses, mirrors, sensors, o, d) # None
    /\ hit_best' = HitBest(lenses, mirrors, sensors, o, d)
    /\ Advance(HitBest(lenses, mirrors, sensors, o, d),
               NewDirection(HitBest(lenses, mirrors, sensors, o, d), d))
    /\ sensor_hits' = CountSensors(sensors, o, d, sensor_hits)
    /\ it' = it + 1
    /\ UNCHANGED <<scene, pc, run, first, lenses, mirrors, sensors, rng,
                   rays_out, outgoing_lines, total_rays, si, ri, brk, hits0,
                   analysis, probe, probed>>

\* lines 97-99: the final segment's direction d, kept when non-zero
OutgoingLine(p0, dd) == IF Norm(dd) > 0 THEN <<RayLine(p0, dd)>> ELSE <<>>

\* lines 94-99 and 110-115: the ray-line of a traced path, if any
OutgoingOf(poly) ==
    IF Len(poly) >= 2
    THEN OutgoingLine(poly[Len(poly) - 1],
                      Normalized(VSub(poly[Len(poly)], poly[Len(poly) - 1])))
    ELSE <<>>

\* line 224 and lines 93-99 / 108-115: _trace_one returns, the path is kept
TraceReturn ==
    /\ pc = "trace"
    /\ ~InLoop
    /\ rays_out' = Append(rays_out, pts)
    /\ outgoing_lines' = outgoing_lines \o OutgoingOf(pts)
    /\ IF ri + 1 < scene.sources[si].ray_count
       THEN ri' = ri + 1 /\ si' = si
       ELSE ri' = 0 /\ si' = si + 1
    /\ pc' = "emit"
    /\ UNCHANGED <<scene, run, first, lenses, mirrors, sensors, rng,
                   sensor_hits, total_rays, pts, o, d, it, brk, hit_best,
                   hits0, analysis, probe, probed>>

SeqMin(xs) == CHOOSE v \in {xs[i] : i \in 1..Len(xs)} : \A j \in 1..Len(xs) : v <= xs[j]

SeqMax(xs) == CHOOSE v \in {xs[i] : i \in 1..Len(xs)} : \A j \in 1..Len(xs) : v >= xs[j]

\* lines 120-126
ScanWindow(lines, dx_mean, lo, hi, dist) ==
    best_focus_scan(lines,
                    IF dx_mean >= 0 THEN lo ELSE hi - dist,
                    IF dx_mean >= 0 THEN lo + dist ELSE hi,
                    ScanSteps, MinSamples)

\* lines 118-126
ScanOf(lines, dist) ==
    IF lines = <<>> THEN None
    ELSE ScanWindow(lines,
                    Mean([i \in 1..Len(lines) |-> lines[i].d.x]),
                    SeqMin([i \in 1..Len(lines) |-> lines[i].p0.x]),
                    SeqMax([i \in 1..Len(lines) |-> lines[i].p0.x]),
                    dist)

\* A faulty order: the least-squares estimate first, the scan as the fallback
EstimateFirst(lines, scan) ==
    IF estimate_focus(lines) = None THEN scan ELSE estimate_focus(lines)

\* lines 127-128
FocusPick(lines, scan) == IF scan = None THEN estimate_focus(lines) ELSE scan

\* A faulty degraded block: the count of ray-lines dropped with the focus
AnalysisWithoutCount(lines, focus) ==
    IF focus = None
    THEN [focus |-> None, spot_rms |-> None, ray_count |-> 0,
          profile |-> None, sensors |-> None]
    ELSE [focus |-> focus.p, spot_rms |-> focus.rms, ray_count |-> Len(lines),
          profile |-> intensity_profile_at_x(lines, focus.p.x, ProfileBins),
          sensors |-> None]

\* lines 129-146
AnalysisWith(lines, focus) ==
    IF focus = None
    THEN [focus |-> None, spot_rms |-> None, ray_count |-> Len(lines),
          profile |-> None, sensors |-> None]
    ELSE [focus |-> focus.p, spot_rms |-> focus.rms, ray_count |-> Len(lines),
          profile |-> intensity_profile_at_x(lines, focus.p.x, ProfileBins),
          sensors |-> None]

\* lines 117-146
AnalysisOf(lines, dist) == AnalysisWith(lines, FocusPick(lines, ScanOf(lines, dist)))

\* lines 152-156: one sensor's entry; percentage in hundredths of a percent
SensorEntry(hit_count, total) ==
    [ray_count |-> hit_count,
     percentage |-> IF total > 0 THEN RoundDiv(hit_count * 100 * Q, total) ELSE 0]

\* lines 149-157
WithSensors(a, ss, hits, total) ==
    IF ss # <<>>
    THEN [a EXCEPT !.sensors =
             [id \in DOMAIN hits |-> SensorEntry(hits[id], total)]]
    ELSE a

\* lines 117-159
Analyse ==
    /\ pc = "emit"
    /\ si > Len(scene.sources)
    /\ analysis' = WithSensors(AnalysisOf(outgoing_lines, max_dist), sensors,
                               sensor_hits, total_rays)
    /\ pc' = "done"
    /\ UNCHANGED <<scene, run, first, lenses, mirrors, sensors, rng, rays_out,
                   outgoing_lines, sensor_hits, total_rays, si, ri, pts, o, d,
                   it, brk, hit_best, hits0, probe, probed>>

\* what simulate_scene returns at line 159
Result == [rays |-> rays_out, analysis |-> analysis]

\* The caller runs simulate_scene once more on the same scene.
Rerun ==
    /\ pc = "done"
    /\ run = 1
    /\ run' = 2
    /\ first' = Result
    /\ pc' = "start"
    /\ lenses' = <<>> /\ mirrors' = <<>> /\ sensors' = <<>>
    /\ rng' = 0
    /\ rays_out' = <<>> /\ outgoing_lines' = <<>>
    /\ sensor_hits' = <<>> /\ total_rays' = 0
    /\ si' = 1 /\ ri' = 0
    /\ pts' = <<>> /\ o' = Origin(Zero, Zero) /\ d' = Zero
    /\ it' = 0 /\ brk' = FALSE /\ hits0' = <<>>
    /\ analysis' = None
    /\ hit_best' = None
    /\ UNCHANGED <<scene, probe, probed>>

\* The caller runs simulate_scene once more on the scene with settings.seed
\* replaced by another value the schema admits.
Reseed ==
    /\ pc = "done"
    /\ run = 1
    /\ run' = 3
    /\ first' = Result
    /\ \E seed \in SeedChoices \ {scene.settings.seed} :
          scene' = [scene EXCEPT !.settings.seed = seed]
    /\ pc' = "start"
    /\ lenses' = <<>> /\ mirrors' = <<>> /\ sensors' = <<>>
    /\ rng' = 0
    /\ rays_out' = <<>> /\ outgoing_lines' = <<>>
    /\ sensor_hits' = <<>> /\ total_rays' = 0
    /\ si' = 1 /\ ri' = 0
    /\ pts' = <<>> /\ o' = Origin(Zero, Zero) /\ d' = Zero
    /\ it' = 0 /\ brk' = FALSE /\ hits0' = <<>>
    /\ analysis' = None
    /\ hit_best' = None
    /\ UNCHANGED <<probe, probed>>

Next ==
    \/ ConstructRaises
    \/ Construct
    \/ SkipSource
    \/ EmitCollimated
    \/ EmitPoint
    \/ TraceEscape
    \/ TraceHit
    \/ TraceReturn
    \/ Analyse
    \/ Rerun
    \/ Reseed

Spec == Init /\ [][Next]_vars
\* ------------------------------------------ ConicMirror.intersect alone

\* Largest origin abscissa of a probing ray, in whole units (at whole units
\* the coefficients A, B, C and the roots carry no rounding)
MaxProbe == 6

\* test_optics.py lines 50 and 61: a mirror at the identity pose, aperture 1
ProbeMirror(R, kappa) ==
    [id |-> "m", pose |-> Pose2(Zero, 0), R |-> R, kappa |-> kappa, aperture |-> Q]

\* test_optics.py lines 51-52 and 62-63: rays travelling along -x, on the
\* axis and near it; and rays from off the axis, along -x and along the
\* diagonals, which miss the conic, meet it outside the aperture, or run
\* along a hyperbola's asymptote
ConicProbes ==
    {[mr |-> ProbeMirror(R, kappa), ro |-> Vec2(Q * k, y0), rd |-> Vec2(-Q, 0)] :
        R \in {50, 100, 200}, kappa \in {-200, -100, -50, 0, 100},
        k \in 1..MaxProbe, y0 \in {0, 30}}
    \cup
    {[mr |-> ProbeMirror(R, kappa), ro |-> Vec2(Q * k, Q * j),
      rd |-> Vec2(Cos(a), Sin(a))] :
        R \in {50, 100}, kappa \in {-200, -100, 0},
        k \in 1..MaxProbe, j \in 1..2, a \in {3, Half - 3, Half, Half + 3}}

ProbeInit ==
    /\ probe \in ConicProbes
    /\ probed = None
    /\ scene = None
    /\ pc = "probe"
    /\ run = 1
    /\ first = None
    /\ InitialLocals

\* test_optics.py lines 53 and 64: h = mir.intersect(ro, rd)
Probe ==
    /\ pc = "probe"
    /\ probed' = ConicIntersect(probe.mr, Origin(probe.ro, Zero), probe.rd)
    /\ pc' = "probed"
    /\ UNCHANGED <<scene, run, first, lenses, mirrors, sensors, rng, rays_out,
                   outgoing_lines, sensor_hits, total_rays, si, ri, pts, o, d,
                   it, brk, hit_best, hits0, analysis, probe>>

SpecConic == ProbeInit /\ [][Probe]_vars

\* ------------------------------------------------ best_focus_scan alone

\* Largest number of lines in a small fan, and largest steps argument
MaxFan == 4

MaxSteps == 6

\* n ray-lines leaving the plane x = 0 at heights -0.6 .. 0.6, aimed at (fx, 0)
Fan(n, fx) ==
    [i \in 1..n |->
        RayLine(Vec2(0, -60 + RoundDiv(120 * (i - 1), Max(1, n - 1))),
                Normalized(Vec2(fx, 60 - RoundDiv(120 * (i - 1), Max(1, n - 1)))))]

\* The arguments of best_focus_scan (analysis.py lines 110-116): a fan,
\* alone or with two lines that start behind its focus, with a line of
\* d.x = 0, or with a line that travels towards -x
ScanProbes ==
    {[lines |-> Fan(n, fx) \o ex, x_min |-> 0, x_max |-> x_max, steps |-> steps,
      min_samples |-> ms] :
        n \in 1..MaxFan \cup {MinSamples - 1, MinSamples}, fx \in {100, 200},
        ex \in { <<>>,
                 <<RayLine(Vec2(250, 40), Vec2(Q, 0)),
                   RayLine(Vec2(250, -40), Vec2(Q, 0))>>,
                 <<RayLine(Vec2(100, 0), Vec2(0, Q))>>,
                 <<RayLine(Vec2(300, 10), Vec2(-Q, 0))>> },
        x_max \in {300, 500}, steps \in 0..MaxSteps,
        ms \in {1, 2, MaxFan + 1, MinSamples}}

ScanInit ==
    /\ probe \in ScanProbes
    /\ probed = None
    /\ scene = None
    /\ pc = "scan"
    /\ run = 1
    /\ first = None
    /\ InitialLocals

\* best_focus_scan(lines, x_min, x_max, steps, min_samples)
Scan ==
    /\ pc = "scan"
    /\ probed' = best_focus_scan(probe.lines, probe.x_min, probe.x_max,
                                 probe.steps, probe.min_samples)
    /\ pc' = "scanned"
    /\ UNCHANGED <<scene, run, first, lenses, mirrors, sensors, rng, rays_out,
                   outgoing_lines, sensor_hits, total_rays, si, ri, pts, o, d,
                   it, brk, hit_best, hits0, analysis, probe>>

SpecScan == ScanInit /\ [][Scan]_vars

\* ------------------------------------------------------------ properties

IntegerSeed == scene.settings.seed # None

\* The rays the sources of the scene emit: the sum of their ray counts
EmittedRays == SumSeq([i \in 1..Len(scene.sources) |-> Max(0, scene.sources[i].ray_count)])

\* The sensors the ray (o, d) intersects, by index
Intersected == {i \in 1..Len(sensors) : SensorIntersect(sensors[i], o, d) # None}

\* Every hit an element of the scene returns for the ray (o, d)
AllHits ==
    {LensIntersect(lenses[i], o, d) :
        i \in {j \in 1..Len(lenses) : LensIntersect(lenses[j], o, d) # None}}
    \cup {ConicIntersect(mirrors[i], o, d) :
        i \in {j \in 1..Len(mirrors) : ConicIntersect(mirrors[j], o, d) # None}}
    \cup {SensorIntersect(sensors[i], o, d) : i \in Intersected}

\* A step of the model that is one iteration of the trace loop
Iteration == pc = "trace" /\ pc' = "trace"

\* C1: simulate_scene on any Scene the schema builds (with a seed the
\* generator accepts) completes without raising, and its result holds one
\* polyline per emitted ray.
C1_ValidSceneCompletes ==
    /\ (scene \in SchemaScenes /\ SeedAccepted) => pc # "raised"
    /\ pc = "done" => Len(rays_out) = EmittedRays

\* No two sensors of the run share an id
DistinctIds == \A i, j \in 1..Len(sensors) : sensors[i].id = sensors[j].id => i = j

\* C2: with sensors of distinct ids, one traced ray adds at most 1 to a
\* sensor's counter over all of its bounce steps, and the reported percentage
\* is hits / total_rays * 100 rounded to two decimals and never above 100 %.
C2_OncePerRayPerSensor ==
    /\ (pc = "trace" /\ DistinctIds) =>
          \A id \in DOMAIN sensor_hits : sensor_hits[id] <= hits0[id] + 1
    /\ (pc = "done" /\ sensors # <<>> /\ DistinctIds) =>
          \A id \in DOMAIN sensor_hits :
              /\ analysis.sensors[id].ray_count = sensor_hits[id]
              /\ analysis.sensors[id].percentage =
                    (IF total_rays > 0
                     THEN RoundDiv(sensor_hits[id] * 100 * Q, total_rays) ELSE 0)
              /\ analysis.sensors[id].percentage <= 100 * Q

\* C3: the second run on a scene with an integer seed returns what the first
\* run returned, rays and analysis alike; the generator is set once per run,
\* from settings.seed, and afterwards only advances by its own draws.
C3_Deterministic ==
    [][/\ (pc' = "done" /\ run' = 2 /\ IntegerSeed) => Result' = first'
       /\ (pc = "start" /\ pc' = "emit" /\ IntegerSeed)
             => rng' = SeedState(scene.settings.seed)
       /\ (pc \in {"emit", "trace"} /\ rng' # rng)
             => (angular_jitter > 0 /\ pc' = "trace" /\ rng' = RngStep(rng))]_vars

C3_Witness ==
    /\ pc = "done" /\ run = 2
    /\ IntegerSeed /\ angular_jitter > 0
    /\ Len(rays_out) >= 2
    /\ \E i \in 1..Len(rays_out) : rays_out[i][2].y # 0

\* C4: when neither best_focus_scan nor estimate_focus yields a focus the run
\* still ends with a result: focus, spot_rms and profile are null, ray_count
\* is the number of outgoing ray-lines, and rays holds every traced polyline.
C4_GracefulDegradation ==
    (pc = "done" /\ ScanOf(outgoing_lines, max_dist) = None
                 /\ estimate_focus(outgoing_lines) = None)
    => /\ analysis.focus = None
       /\ analysis.spot_rms = None
       /\ analysis.profile = None
       /\ analysis.ray_count = Len(outgoing_lines)
       /\ Len(rays_out) = total_rays
       /\ Len(rays_out) = EmittedRays

C4_Witness ==
    /\ pc = "done"
    /\ Len(outgoing_lines) >= 2
    /\ estimate_focus(outgoing_lines) = None
    /\ analysis.focus = None
    /\ analysis.ray_count = Len(outgoing_lines)

\* C5: the trace loop runs at most max_bounces + 1 iterations; an iteration
\* runs only while no earlier one escaped; an escaping iteration appends
\* o + d * max_distance, any other appends its hit point; the loop is left
\* either escaped or exhausted (every iteration found a hit), with a path of
\* 2 to max_bounces + 2 points that starts with the ray origin.
C5_TraceLoopBounded ==
    [][/\ (pc = "emit" /\ pc' = "trace")
             => (it' = 0 /\ ~brk' /\ pts' = <<o'.p>>)
       /\ Iteration
             => /\ ~brk /\ it <= max_bounces /\ it' = it + 1
                /\ pts'[1] = pts[1]
                /\ Len(pts') = it' + 1
                /\ IF brk'
                   THEN pts' = Append(pts, VAdd(o.p, VMul(d, max_dist)))
                   ELSE hit_best' # None /\ pts' = Append(pts, hit_best'.h.p_world)
       /\ (pc = "trace" /\ pc' = "emit")
             => /\ it <= max_bounces + 1
                /\ Len(pts) >= 2 /\ Len(pts) <= max_bounces + 2
                /\ rays_out' = Append(rays_out, pts)
                /\ IF brk
                   THEN Len(pts) = it + 1
                   ELSE it = max_bounces + 1 /\ Len(pts) = max_bounces + 2
                        /\ hit_best # None
                        /\ pts[Len(pts)] = hit_best.h.p_world]_vars

C5_Witness ==
    /\ pc = "trace" /\ ~brk
    /\ max_bounces >= 1
    /\ it = max_bounces + 1
    /\ Len(pts) = max_bounces + 2

\* C6: a traced ray adds an outgoing ray-line exactly when it escaped to free
\* space, with the direction it had after its last interaction; a ray that
\* exhausted its bounce budget adds none.
C6_OnlyEscapedRaysRecorded ==
    [][(pc = "trace" /\ pc' = "emit")
          => IF brk
             THEN outgoing_lines' =
                      Append(outgoing_lines, RayLine(pts[Len(pts) - 1], d))
             ELSE outgoing_lines' = outgoing_lines]_vars

\* C7 as stated: whatever kappa, R and x0 > 0, the on-axis ray from (x0, 0)
\* along -x is reported to hit the vertex (0, 0) at t = x0.
C7_AlwaysVertex ==
    (pc = "probed" /\ probe.ro.y = 0)
    => (probed # None /\ probed.p_world = Zero /\ probed.t = probe.ro.x)

\* C7: the on-axis ray from (x0, 0) along -x hits the vertex (0, 0) at t = x0
\* when 1 + kappa <= 0 or x0 <= 2R / (1 + kappa); beyond that abscissa it
\* first meets the far side of the closed conic, at (2R / (1 + kappa), 0).
C7_OnAxisHit ==
    (pc = "probed" /\ probe.ro.y = 0)
    => /\ probed # None
       /\ IF Q + probe.mr.kappa <= 0
             \/ (Q + probe.mr.kappa) * probe.ro.x <= 2 * probe.mr.R * Q
          THEN probed.p_world = Zero /\ probed.t = probe.ro.x
          ELSE /\ probed.p_world = Vec2(FDiv(2 * probe.mr.R, Q + probe.mr.kappa), 0)
               /\ probed.t = probe.ro.x - FDiv(2 * probe.mr.R, Q + probe.mr.kappa)

C7_Witness ==
    /\ pc = "probed"
    /\ probe.ro = Vec2(Q, 0) /\ probe.mr.R = Q /\ probe.mr.kappa = 0
    /\ probed # None
    /\ probed.p_world = Zero /\ probed.t = Q

\* C8 as stated: in every iteration the counter of each intersected sensor
\* rises by exactly 1, the others stay, and no counter ever falls.
C8_ExactlyOne ==
    [][/\ Iteration
          => \A i \in 1..Len(sensors) :
                sensor_hits'[sensors[i].id] =
                    sensor_hits[sensors[i].id] + (IF i \in Intersected THEN 1 ELSE 0)
       /\ (pc \in {"emit", "trace"})
          => \A id \in DOMAIN sensor_hits : sensor_hits'[id] >= sensor_hits[id]]_vars

\* C8: in every iteration the counter kept under a sensor id rises by the
\* number of intersected sensors that carry this id (by 1 when ids are
\* distinct), whichever hit is selected; no counter ever falls.
C8_OnePerIntersectedSensor ==
    [][/\ Iteration
          => \A id \in DOMAIN sensor_hits :
                sensor_hits'[id] =
                    sensor_hits[id]
                    + Cardinality({i \in Intersected : sensors[i].id = id})
       /\ (pc \in {"emit", "trace"})
          => \A id \in DOMAIN sensor_hits : sensor_hits'[id] >= sensor_hits[id]]_vars

C8_Witness ==
    /\ pc = "trace" /\ it = 1
    /\ hit_best # None
    /\ IF hit_best = None THEN FALSE ELSE hit_best.kind = "lens"
    /\ \E id \in DOMAIN sensor_hits : sensor_hits[id] = hits0[id] + 1
    /\ \E i, j \in 1..Len(sensors) : i # j /\ sensors[i].id # sensors[j].id

\* C9: every lens, mirror and sensor is tested in an iteration; a hit is
\* selected exactly when some element returns one, it is one of the hits
\* returned, and no returned hit has a smaller t.
C9_NearestSelected ==
    [][Iteration
          => IF AllHits = {}
             THEN brk' /\ hit_best' = None
             ELSE /\ ~brk'
                  /\ hit_best' # None
                  /\ hit_best'.h \in AllHits
                  /\ \A h \in AllHits : hit_best'.h.t <= h.t]_vars

C9_Witness ==
    /\ pc = "trace" /\ it = 1
    /\ mirrors # <<>>
    /\ IF hit_best = None THEN FALSE
       ELSE /\ hit_best.kind = "sensor"
            /\ ConicIntersect(mirrors[1], Origin(pts[1], Zero), d) # None

\* C10: an iteration that selects a hit appends the hit point; the direction
\* stays as it was for a sensor, becomes transmit(...) for a lens and
\* reflect(...) for a mirror; the next origin is the hit point offset by the
\* epsilon along the new direction.
C10_Interaction ==
    [][(Iteration /\ ~brk')
          => /\ hit_best' # None
             /\ pts' = Append(pts, hit_best'.h.p_world)
             /\ d' = (CASE hit_best'.kind = "sensor" -> d
                        [] hit_best'.kind = "lens" ->
                              LensTransmit(hit_best'.elem, hit_best'.h.p_world, d)
                        [] hit_best'.kind = "mirror" ->
                              ConicReflect(d, hit_best'.h.n_world))
             /\ o' = Origin(hit_best'.h.p_world, d')]_vars

C10_Witness ==
    /\ pc = "trace" /\ it = 2
    /\ IF hit_best = None THEN FALSE
       ELSE /\ hit_best.kind = "sensor"
            /\ o = Origin(hit_best.h.p_world, d)
            /\ pts[Len(pts)] = hit_best.h.p_world
            /\ d.y # 0

\* C11: at the end of a run the reported focus is the result of
\* best_focus_scan over the outgoing ray-lines whenever that result exists;
\* the least-squares estimate_focus is reported only when the scan gave
\* nothing (no outgoing line, or no plane accepted); the profile is null
\* without a focus and otherwise is the profile at detector_x = focus x.
C11_FocusOrder ==
    pc = "done"
    => /\ ScanOf(outgoing_lines, max_dist) # None
            => /\ outgoing_lines # <<>>
               /\ analysis.focus = ScanOf(outgoing_lines, max_dist).p
               /\ analysis.spot_rms = ScanOf(outgoing_lines, max_dist).rms
       /\ (ScanOf(outgoing_lines, max_dist) = None
             /\ estimate_focus(outgoing_lines) # None)
            => /\ analysis.focus = estimate_focus(outgoing_lines).p
               /\ analysis.spot_rms = estimate_focus(outgoing_lines).rms
       /\ (ScanOf(outgoing_lines, max_dist) = None
             /\ estimate_focus(outgoing_lines) = None)
            => analysis.focus = None
       /\ IF analysis.focus = None THEN analysis.profile = None
          ELSE /\ analysis.profile =
                     intensity_profile_at_x(outgoing_lines, analysis.focus.x,
                                            ProfileBins)
               /\ analysis.profile # None
                     => analysis.profile.detector.x = analysis.focus.x

C11_Witness ==
    /\ pc = "done"
    /\ ScanOf(outgoing_lines, max_dist) # None
    /\ estimate_focus(outgoing_lines) # None
    /\ IF estimate_focus(outgoing_lines) = None THEN FALSE
       ELSE estimate_focus(outgoing_lines) # ScanOf(outgoing_lines, max_dist)
    /\ analysis.focus = ScanOf(outgoing_lines, max_dist).p
    /\ IF analysis.profile = None THEN FALSE
       ELSE analysis.profile.detector.x = analysis.focus.x

\* ConicMirror.intersect, lines 146-190, on the probing ray: the candidate
\* roots that pass the three filters, each with the local point it is met at
ProbeQualifying ==
    LET ro_l == WorldToLocal(probe.mr.pose, probe.ro)
        rd_l == Normalized(DirWorldToLocal(probe.mr.pose, probe.rd))
        k1 == Q + probe.mr.kappa
        A == FMul(rd_l.y, rd_l.y) + FMul(k1, FMul(rd_l.x, rd_l.x))
        B == 2 * FMul(ro_l.y, rd_l.y) - 2 * FMul(probe.mr.R, rd_l.x)
               + 2 * FMul(k1, FMul(ro_l.x, rd_l.x))
        C == FMul(ro_l.y, ro_l.y) - 2 * FMul(probe.mr.R, ro_l.x)
               + FMul(k1, FMul(ro_l.x, ro_l.x))
        disc == FMul(B, B) - 4 * FMul(A, C)
        ts == IF A = 0
              THEN (IF B = 0 THEN {} ELSE {FDiv(-C, B)})
              ELSE IF disc < 0 THEN {}
              ELSE {FDiv(-B - FSqrt(disc), 2 * A), FDiv(-B + FSqrt(disc), 2 * A)}
    IN  {r \in {[t |-> t, p_l |-> Vec2(ro_l.x + FMul(t, rd_l.x),
                                       ro_l.y + FMul(t, rd_l.y))] : t \in ts} :
            /\ r.t > 0
            /\ r.p_l.x >= 0
            /\ 2 * Abs(r.p_l.y) <= probe.mr.aperture}

\* C12: ConicMirror.intersect returns None when the discriminant is negative,
\* when A and B both vanish and when no candidate root has t > 0, local
\* x >= 0 and |local y| <= aperture / 2; otherwise it returns the hit at the
\* smallest root that passes these filters, so a returned hit has t > 0.
C12_RootSelection ==
    pc = "probed"
    => IF ProbeQualifying = {}
       THEN probed = None
       ELSE /\ probed # None
            /\ \E r \in ProbeQualifying :
                  /\ probed.t = r.t
                  /\ probed.p_world = LocalToWorld(probe.mr.pose, r.p_l)
            /\ \A r \in ProbeQualifying : probed.t <= r.t
            /\ probed.t > 0
            /\ probed.element_type = "mirror"

C12_Witness ==
    /\ pc = "probed"
    /\ probe.ro.y # 0
    /\ Cardinality(ProbeQualifying) = 2
    /\ IF probed = None THEN FALSE
       ELSE \E r \in ProbeQualifying : probed.t < r.t

\* best_focus_scan, lines 127-134 with _ys_at_x, lines 99-106: every plane of
\* the scan that has a valid intercept (d.x # 0 and t > 0), with the number
\* of its intercepts, their mean and their RMS spread
ScanPlanes ==
    IF probe.steps < 2 THEN {}
    ELSE LET x(i) == probe.x_min
                       + RoundDiv((probe.x_max - probe.x_min) * i, probe.steps - 1)
             valid(i) == {k \in 1..Len(probe.lines) :
                            /\ probe.lines[k].d.x # 0
                            /\ (x(i) - probe.lines[k].p0.x) * probe.lines[k].d.x > 0}
             ys(i) == _ys_at_x(probe.lines, x(i))
         IN  {[i |-> i, x |-> x(i), samples |-> Cardinality(valid(i)),
               y_mean |-> Mean(ys(i)), rms |-> RmsAbout(ys(i), Mean(ys(i)))] :
                 i \in {k \in 0..(probe.steps - 1) : valid(k) # {}}}

\* C13: best_focus_scan returns None when steps < 2 and when no plane has
\* min_samples valid intercepts (so always when there are fewer lines than
\* min_samples); otherwise it returns a plane with at least min_samples
\* intercepts, its mean height and its RMS spread, and no such plane has a
\* smaller spread.
C13_MinimalSpread ==
    pc = "scanned"
    => /\ IF \A pl \in ScanPlanes : pl.samples < probe.min_samples
          THEN probed = None
          ELSE /\ probed # None
               /\ \E pl \in ScanPlanes :
                     /\ pl.samples >= probe.min_samples
                     /\ probed.p = Vec2(pl.x, pl.y_mean)
                     /\ probed.rms = pl.rms
               /\ \A pl \in ScanPlanes :
                     pl.samples >= probe.min_samples => probed.rms <= pl.rms
       /\ Len(probe.lines) < probe.min_samples => probed = None
       /\ probe.steps < 2 => probed = None

C13_Witness ==
    /\ pc = "scanned"
    /\ probed # None
    /\ probe.min_samples = MinSamples
    /\ \E p1, p2 \in ScanPlanes :
          /\ p1.samples >= probe.min_samples
          /\ p2.samples >= probe.min_samples
          /\ p1.rms < p2.rms
    /\ \E pl \in ScanPlanes :
          /\ pl.samples < probe.min_samples
          /\ IF probed = None THEN FALSE ELSE pl.rms < probed.rms

\* lines 179-203: the elements in the order they are tested (lenses, mirrors,
\* sensors, each in list order), each with what its intersect returns
Candidates ==
    [i \in 1..Len(lenses) |->
        [kind |-> "lens", elem |-> lenses[i], h |-> LensIntersect(lenses[i], o, d)]]
    \o [i \in 1..Len(mirrors) |->
        [kind |-> "mirror", elem |-> mirrors[i],
         h |-> ConicIntersect(mirrors[i], o, d)]]
    \o [i \in 1..Len(sensors) |->
        [kind |-> "sensor", elem |-> sensors[i],
         h |-> SensorIntersect(sensors[i], o, d)]]

\* C14: in every iteration that finds a hit, the selected one is the
\* earliest-tested candidate among those of least t: at equal t a lens stays
\* selected against a mirror or a sensor, a mirror against a sensor, and the
\* first element of a list against the later ones.
C14_EarliestOfNearest ==
    [][Iteration
          => LET Hitting == {i \in 1..Len(Candidates) : Candidates[i].h # None}
             IN  Hitting # {}
                 => \E i \in Hitting :
                       /\ hit_best' = Candidates[i]
                       /\ \A j \in Hitting :
                             \/ Candidates[i].h.t < Candidates[j].h.t
                             \/ /\ Candidates[i].h.t = Candidates[j].h.t
                                /\ i <= j]_vars

C14_Witness ==
    /\ pc = "trace" /\ it = 1
    /\ Len(lenses) = 2 /\ sensors # <<>>
    /\ IF hit_best = None THEN FALSE
       ELSE /\ hit_best.kind = "lens"
            /\ hit_best.elem = lenses[1]
            /\ LensIntersect(lenses[2], Origin(pts[1], Zero),
                             Normalized(VSub(pts[2], pts[1])))
                  = [hit_best.h EXCEPT !.element_id = lenses[2].id]
            /\ SensorIntersect(sensors[1], Origin(pts[1], Zero),
                               Normalized(VSub(pts[2], pts[1]))) # None
            /\ SensorIntersect(sensors[1], Origin(pts[1], Zero),
                               Normalized(VSub(pts[2], pts[1]))).t = hit_best.h.t

\* C15: without jitter the output of a run does not depend on settings.seed:
\* the run on the scene with any other seed (absent included) completes and
\* returns the rays and the analysis of the first run; the generator is not
\* drawn from when angular_jitter = 0 and is drawn from exactly once per
\* emitted ray when angular_jitter > 0.
C15_SeedIrrelevant ==
    [][/\ (run' = 3 /\ angular_jitter' = 0 /\ pc' \in {"done", "raised"})
             => (pc' = "done" /\ Result' = first')
       /\ (pc = "emit" /\ pc' = "trace")
             => rng' = (IF angular_jitter > 0 THEN RngStep(rng) ELSE rng)
       /\ (pc = "trace" \/ (pc = "emit" /\ pc' # "trace"))
             => rng' = rng]_vars

=============================================================================
